---- MODULE Spec2Model ----
(***************************************************************************)
(* Model of src/api/recommendations.js: the HTTP handlers OPTIONS and POST *)
(* of the recommendation endpoint.  The file holds two definitions of the  *)
(* POST handler (lines 49-174 and lines 215-346) with their own helpers;   *)
(* both are modelled, and a request is served by one of them (req.def).    *)
(*                                                                         *)
(* JavaScript values are records [k, v]: k is the type tag and v the       *)
(* payload.  JavaScript strings are TLA+ strings, one character per        *)
(* UTF-16 code unit.                                                       *)
(***************************************************************************)
EXTENDS Integers, Sequences, FiniteSets, TLC

-----------------------------------------------------------------------------
(* JavaScript values *)

Undefined == [k |-> "undefined", v |-> ""]
Null      == [k |-> "null", v |-> ""]
Str(s)    == [k |-> "string", v |-> s]
Num(n)    == [k |-> "number", v |-> n]
Bool(b)   == [k |-> "boolean", v |-> b]
Arr(a)    == [k |-> "array", v |-> a]
Obj(f)    == [k |-> "object", v |-> f]
\* the empty object literal {}
EmptyObj  == Obj(<<>>)

\* x ?? y
Coalesce(x, y) == IF x.k \in {"undefined", "null"} THEN y ELSE x

\* !x
Falsy(x) ==
    \/ x.k \in {"undefined", "null", "NaN"}
    \/ x.k = "string" /\ x.v = ""
    \/ x.k = "number" /\ x.v = 0
    \/ x.k = "boolean" /\ ~x.v

\* o?.[key]: undefined on null/undefined, on a primitive and on a missing key
Get(o, key) ==
    IF o.k = "object" /\ key \in DOMAIN o.v THEN o.v[key] ELSE Undefined

\* s.slice(0, max) on a string
Slice(s, max) == SubSeq(s, 1, IF Len(s) < max THEN Len(s) ELSE max)

Ch(s, i) == SubSeq(s, i, i)

-----------------------------------------------------------------------------
(* JSON.parse / request.json(): a recursive-descent parser over the text.  *)
(* Covered grammar: objects, arrays, strings with the escapes of the       *)
(* quote, the backslash and the control characters, the literals           *)
(* null/true/false and unsigned integers; the texts the model feeds it     *)
(* use nothing else.                                                       *)

JSONWhitespace == {" ", "\t", "\n", "\r"}
DigitChars == <<"0", "1", "2", "3", "4", "5", "6", "7", "8", "9">>
IsDigit(c) == \E d \in 1..10 : DigitChars[d] = c
DigitVal(c) == (CHOOSE d \in 1..10 : DigitChars[d] = c) - 1

ParseFail == [ok |-> FALSE, val |-> Undefined, pos |-> 0]
ParseOk(val, pos) == [ok |-> TRUE, val |-> val, pos |-> pos]

RECURSIVE SkipWs(_, _)
SkipWs(s, i) ==
    IF i <= Len(s) /\ Ch(s, i) \in JSONWhitespace THEN SkipWs(s, i + 1) ELSE i

RECURSIVE ScanDigits(_, _, _)
ScanDigits(s, i, acc) ==
    IF i <= Len(s) /\ IsDigit(Ch(s, i))
    THEN ScanDigits(s, i + 1, acc * 10 + DigitVal(Ch(s, i)))
    ELSE ParseOk(Num(acc), i)

\* a number token starting at i (no leading zero before another digit)
ParseNumber(s, i) ==
    IF Ch(s, i) = "0" /\ i < Len(s) /\ IsDigit(Ch(s, i + 1))
    THEN ParseFail
    ELSE ScanDigits(s, i, 0)

\* the escape letters of the control characters
ControlEscapes == [n |-> "\n", r |-> "\r", t |-> "\t", f |-> "\f"]

\* how many backslashes stand directly before position p, from i on
RECURSIVE BackslashesBefore(_, _, _)
BackslashesBefore(s, i, p) ==
    IF p > i /\ Ch(s, p - 1) = "\\"
    THEN 1 + BackslashesBefore(s, i, p - 1)
    ELSE 0

\* the character at p of a string token begun at i follows an escaping
\* backslash
Escaped(s, i, p) == BackslashesBefore(s, i, p) % 2 = 1

\* the characters lo..hi of a string token begun at i, escapes resolved
RECURSIVE Unescape(_, _, _, _)
Unescape(s, i, lo, hi) ==
    IF lo > hi THEN ""
    ELSE IF lo = hi
    THEN IF Escaped(s, i, lo)
         THEN IF Ch(s, lo) \in DOMAIN ControlEscapes
              THEN ControlEscapes[Ch(s, lo)] ELSE Ch(s, lo)
         ELSE IF Ch(s, lo) = "\\" THEN "" ELSE Ch(s, lo)
    ELSE LET mid == (lo + hi) \div 2 IN
         Unescape(s, i, lo, mid) \o Unescape(s, i, mid + 1, hi)

\* the first unescaped quote in lo..hi of a string token begun at i, 0 if
\* there is none
RECURSIVE ClosingQuote(_, _, _, _)
ClosingQuote(s, i, lo, hi) ==
    IF lo > hi THEN 0
    ELSE IF lo = hi
    THEN IF Ch(s, lo) = "\"" /\ ~Escaped(s, i, lo) THEN lo ELSE 0
    ELSE LET mid == (lo + hi) \div 2
             left == ClosingQuote(s, i, lo, mid)
         IN  IF left # 0 THEN left ELSE ClosingQuote(s, i, mid + 1, hi)

\* the string token whose characters begin at i, after its opening quote
ScanString(s, i) ==
    LET j == ClosingQuote(s, i, i, Len(s)) IN
    IF j = 0 THEN ParseFail
    ELSE IF \A p \in i..(j - 1) :
               IF Escaped(s, i, p)
               THEN Ch(s, p) \in {"\"", "\\"} \cup DOMAIN ControlEscapes
               ELSE Ch(s, p) \notin {"\n", "\r", "\t", "\f"}
         THEN ParseOk(Str(Unescape(s, i, i, j - 1)), j + 1)
         ELSE ParseFail

\* the literal lit stands in s at position i
StartsWith(s, i, lit) ==
    i + Len(lit) - 1 <= Len(s) /\ SubSeq(s, i, i + Len(lit) - 1) = lit

RECURSIVE ParseValue(_, _), ParseElements(_, _, _), ParseMembers(_, _, _)
ParseValue(s, i0) ==
    LET i == SkipWs(s, i0) IN
    IF i > Len(s) THEN ParseFail
    ELSE LET c == Ch(s, i) IN
         IF c = "\"" THEN ScanString(s, i + 1)
         ELSE IF IsDigit(c) THEN ParseNumber(s, i)
         ELSE IF StartsWith(s, i, "null") THEN ParseOk(Null, i + 4)
         ELSE IF StartsWith(s, i, "true") THEN ParseOk(Bool(TRUE), i + 4)
         ELSE IF StartsWith(s, i, "false") THEN ParseOk(Bool(FALSE), i + 5)
         ELSE IF c = "["
              THEN LET j == SkipWs(s, i + 1) IN
                   IF j <= Len(s) /\ Ch(s, j) = "]"
                   THEN ParseOk(Arr(<<>>), j + 1)
                   ELSE ParseElements(s, i + 1, <<>>)
         ELSE IF c = "{"
              THEN LET j == SkipWs(s, i + 1) IN
                   IF j <= Len(s) /\ Ch(s, j) = "}"
                   THEN ParseOk(EmptyObj, j + 1)
                   ELSE ParseMembers(s, i + 1, <<>>)
         ELSE ParseFail

\* value (',' value)* ']' from position i, acc the elements so far
ParseElements(s, i, acc) ==
    LET e == ParseValue(s, i) IN
    IF ~e.ok THEN ParseFail
    ELSE LET j == SkipWs(s, e.pos) IN
         IF j > Len(s) THEN ParseFail
         ELSE IF Ch(s, j) = "," THEN ParseElements(s, j + 1, Append(acc, e.val))
         ELSE IF Ch(s, j) = "]" THEN ParseOk(Arr(Append(acc, e.val)), j + 1)
         ELSE ParseFail

\* string ':' value (',' string ':' value)* '}' from position i; a repeated
\* key keeps its last value
ParseMembers(s, i0, acc) ==
    LET i == SkipWs(s, i0) IN
    IF i > Len(s) \/ Ch(s, i) # "\"" THEN ParseFail
    ELSE LET key == ScanString(s, i + 1) IN
         IF ~key.ok THEN ParseFail
         ELSE LET c == SkipWs(s, key.pos) IN
              IF c > Len(s) \/ Ch(s, c) # ":" THEN ParseFail
              ELSE LET e == ParseValue(s, c + 1) IN
                   IF ~e.ok THEN ParseFail
                   ELSE LET j == SkipWs(s, e.pos)
                            f == (key.val.v :> e.val) @@ acc
                        IN  IF j > Len(s) THEN ParseFail
                            ELSE IF Ch(s, j) = "," THEN ParseMembers(s, j + 1, f)
                            ELSE IF Ch(s, j) = "}" THEN ParseOk(Obj(f), j + 1)
                            ELSE ParseFail

\* JSON.parse(s): [ok, val]; ok = FALSE is the SyntaxError
JSONParse(s) ==
    LET r == ParseValue(s, 1) IN
    IF r.ok /\ SkipWs(s, r.pos) > Len(s)
    THEN [ok |-> TRUE, val |-> r.val]
    ELSE [ok |-> FALSE, val |-> Undefined]

-----------------------------------------------------------------------------
(* JSON.stringify *)

RECURSIVE NumToStr(_)
NumToStr(n) ==
    IF n < 10 THEN DigitChars[n + 1]
    ELSE NumToStr(n \div 10) \o DigitChars[(n % 10) + 1]

\* the characters lo..hi of s with the quote, the backslash and the control
\* characters escaped
RECURSIVE Escape(_, _, _)
Escape(s, lo, hi) ==
    IF lo > hi THEN ""
    ELSE IF lo = hi
    THEN IF Ch(s, lo) \in {"\"", "\\"} THEN "\\" \o Ch(s, lo)
         ELSE IF \E e \in DOMAIN ControlEscapes : ControlEscapes[e] = Ch(s, lo)
         THEN "\\" \o (CHOOSE e \in DOMAIN ControlEscapes :
                          ControlEscapes[e] = Ch(s, lo))
         ELSE Ch(s, lo)
    ELSE LET mid == (lo + hi) \div 2 IN
         Escape(s, lo, mid) \o Escape(s, mid + 1, hi)

Quote(s) == "\"" \o Escape(s, 1, Len(s)) \o "\""

RECURSIVE Stringify(_), StringifyElements(_, _), StringifyMembers(_, _)
Stringify(x) ==
    CASE x.k = "string"  -> Quote(x.v)
      [] x.k = "number"  -> NumToStr(x.v)
      [] x.k = "boolean" -> IF x.v THEN "true" ELSE "false"
      [] x.k = "array"   -> "[" \o StringifyElements(x.v, 1) \o "]"
      [] x.k = "object"  ->
            "{" \o StringifyMembers(x.v,
                      {key \in DOMAIN x.v : x.v[key].k # "undefined"}) \o "}"
      [] OTHER -> "null"

\* an undefined element is written as null
StringifyElements(a, i) ==
    IF i > Len(a) THEN ""
    ELSE Stringify(a[i]) \o (IF i < Len(a) THEN "," ELSE "")
         \o StringifyElements(a, i + 1)

\* members whose value is undefined are left out (keys is already without
\* them); the order of the members is some fixed order of the keys
StringifyMembers(f, keys) ==
    IF keys = {} THEN ""
    ELSE LET key == CHOOSE q \in keys : TRUE IN
         Quote(key) \o ":" \o Stringify(f[key])
         \o (IF keys = {key} THEN "" ELSE ",")
         \o StringifyMembers(f, keys \ {key})

-----------------------------------------------------------------------------
(* String helpers of the language and of the platform *)

\* the characters String.prototype.trim removes; "\f" stands for those of
\* them that are not HTTP whitespace (form feed, vertical tab, U+00A0, ...)
JSWhitespace == {" ", "\t", "\n", "\r", "\f"}
\* the characters the Headers object strips from both ends of a value
HTTPWhitespace == {" ", "\t", "\n", "\r"}

RECURSIVE StripLeft(_, _)
StripLeft(s, ws) ==
    IF s # "" /\ Ch(s, 1) \in ws THEN StripLeft(Tail(s), ws) ELSE s

RECURSIVE StripRight(_, _)
StripRight(s, ws) ==
    IF s # "" /\ Ch(s, Len(s)) \in ws
    THEN StripRight(SubSeq(s, 1, Len(s) - 1), ws)
    ELSE s

\* s.trim()
Trim(s) == StripRight(StripLeft(s, JSWhitespace), JSWhitespace)

\* s.split(sep) for a one-character separator; "".split(",") is [""]
RECURSIVE SplitFrom(_, _, _, _)
SplitFrom(s, sep, i, cur) ==
    IF i > Len(s) THEN <<cur>>
    ELSE IF Ch(s, i) = sep THEN <<cur>> \o SplitFrom(s, sep, i + 1, "")
    ELSE SplitFrom(s, sep, i + 1, cur \o Ch(s, i))

Split(s, sep) == SplitFrom(s, sep, 1, "")

RECURSIVE FilterNonEmpty(_)
FilterNonEmpty(a) ==
    IF a = <<>> THEN <<>>
    ELSE (IF Head(a) = "" THEN <<>> ELSE <<Head(a)>>) \o FilterNonEmpty(Tail(a))

\* a.includes(x)
Includes(a, x) == \E i \in 1..Len(a) : a[i] = x

\* String(x)
RECURSIVE StringOf(_), JoinFrom(_, _)
StringOf(x) ==
    CASE x.k = "string"  -> x.v
      [] x.k = "number"  -> NumToStr(x.v)
      [] x.k = "NaN"     -> "NaN"
      [] x.k = "boolean" -> IF x.v THEN "true" ELSE "false"
      [] x.k = "null"    -> "null"
      [] x.k = "array"   -> JoinFrom(x.v, 1)
      [] x.k = "object"  -> "[object Object]"
      [] OTHER -> "undefined"

\* Array.prototype.join(","): a null or undefined element is written empty
JoinFrom(a, i) ==
    IF i > Len(a) THEN ""
    ELSE (IF a[i].k \in {"null", "undefined"} THEN "" ELSE StringOf(a[i]))
         \o (IF i < Len(a) THEN "," ELSE "")
         \o JoinFrom(a, i + 1)

\* the number NaN
NaN == [k |-> "NaN", v |-> ""]

AllDigits(s) == \A i \in 1..Len(s) : IsDigit(Ch(s, i))

\* Number(x), on strings for unsigned decimal integers
NumberOf(x) ==
    CASE x.k = "number"  -> x
      [] x.k = "boolean" -> Num(IF x.v THEN 1 ELSE 0)
      [] x.k = "null"    -> Num(0)
      [] x.k \in {"string", "array", "object"} ->
            LET t == Trim(StringOf(x)) IN
            IF t = "" THEN Num(0)
            ELSE IF AllDigits(t) THEN ScanDigits(t, 1, 0).val
            ELSE NaN
      [] OTHER -> NaN

\* { ...x }: the own enumerable properties of x
Spread(x) ==
    CASE x.k = "object" -> x.v
      [] x.k = "array"  ->
            [key \in {NumToStr(i - 1) : i \in 1..Len(x.v)} |->
                x.v[CHOOSE i \in 1..Len(x.v) : NumToStr(i - 1) = key]]
      [] x.k = "string" ->
            [key \in {NumToStr(i - 1) : i \in 1..Len(x.v)} |->
                Str(Ch(x.v, CHOOSE i \in 1..Len(x.v) : NumToStr(i - 1) = key))]
      [] OTHER -> <<>>

-----------------------------------------------------------------------------
(* The responder: json(res, status), both definitions *)

ContentType == "application/json"

\* a responder that serializes its argument twice
jsonTwice(res, status) ==
    [status  |-> status,
     body    |-> Stringify(Str(Stringify(res))),
     headers |-> [content_type                 |-> ContentType,
                  access_control_allow_origin  |-> "*",
                  access_control_allow_methods |-> "POST, OPTIONS",
                  access_control_allow_headers |-> "content-type, x-license-key"]]

\* lines 5-15: the first definition attaches the CORS headers
json(res, status) ==
    [status  |-> status,
     body    |-> Stringify(res),
     headers |-> [content_type                 |-> ContentType,
                  access_control_allow_origin  |-> "*",
                  access_control_allow_methods |-> "POST, OPTIONS",
                  access_control_allow_headers |-> "content-type, x-license-key"]]

\* lines 180-185: the second definition attaches the content type only
json2(res, status) ==
    [status  |-> status,
     body    |-> Stringify(res),
     headers |-> [content_type |-> ContentType]]

\* { error: message }
ErrorBody(message) == Obj([error |-> Str(message)])

-----------------------------------------------------------------------------
(* The configuration checks and the access gate *)

\* the outcome of a helper that may throw: ok, or the thrown Error's message
Returned == [ok |-> TRUE, message |-> ""]
Thrown(message) == [ok |-> FALSE, message |-> message]

\* lines 21-25
validateEnv_(e) ==
    IF Falsy(e.OPENAI_API_KEY)
    THEN Thrown("Missing OPENAI_API_KEY environment variable in Vercel.")
    ELSE Returned

\* lines 187-189, called with "OPENAI_API_KEY"
requireEnv(e) ==
    IF Falsy(e.OPENAI_API_KEY)
    THEN Thrown("Missing env var: OPENAI_API_KEY")
    ELSE Returned

\* request.headers.get("x-license-key"): null when the header was not sent,
\* else its value without leading and trailing HTTP whitespace
HeadersGet(key) ==
    IF key.k = "undefined" THEN Null
    ELSE Str(StripRight(StripLeft(key.v, HTTPWhitespace), HTTPWhitespace))

\* x || y
OrElse(x, y) == IF Falsy(x) THEN y ELSE x

\* an allowlist whose tokens keep their surrounding whitespace
AllowlistUntrimmed(secret) == FilterNonEmpty(Split(secret, ","))

\* secret.split(",").map(s => s.trim()).filter(Boolean)
Allowlist(secret) ==
    LET parts == Split(secret, ",") IN
    FilterNonEmpty([i \in 1..Len(parts) |-> Trim(parts[i])])

\* lines 27-35: throws on a missing or unknown key
validateLicense_(secret, key) ==
    IF Falsy(secret) THEN Returned
    ELSE LET provided == OrElse(HeadersGet(key), Str("")).v
             allow == Allowlist(secret.v)
         IN  IF provided = "" THEN Thrown("Missing license key (x-license-key).")
             ELSE IF ~Includes(allow, provided) THEN Thrown("Invalid license key.")
             ELSE Returned

\* a gate that lets every key through
validateLicenseOpen(secret, key) ==
    [ok |-> TRUE, mode |-> "no_license", reason |-> ""]

\* lines 191-205: returns { ok, mode } or { ok, reason }
validateLicense(secret, key) ==
    IF Falsy(secret) THEN [ok |-> TRUE, mode |-> "no_license", reason |-> ""]
    ELSE LET provided == OrElse(HeadersGet(key), Str("")).v IN
         IF provided = ""
         THEN [ok |-> FALSE, mode |-> "", reason |-> "Missing license key."]
         ELSE IF ~Includes(Allowlist(secret.v), provided)
         THEN [ok |-> FALSE, mode |-> "", reason |-> "Invalid license key."]
         ELSE [ok |-> TRUE, mode |-> "license_ok", reason |-> ""]

-----------------------------------------------------------------------------
(* The field normalizer.  The second definition (lines 207-213, 226-261)   *)
(* is the same code as the first (lines 37-47, 82-117) with safeString_    *)
(* written inline.  The key "Interest Level (1-5)" and "Self Rating (1-5)" *)
(* are written in the source with an en dash, here with a hyphen.          *)

AppsCap == 300
NetworkingCap == 300
InterviewsCap == 200
NotesCap == 500
TopicsCap == 300
InterviewNotesCap == 400
GhostedDaysDefault == 14

Min(a, b) == IF a < b THEN a ELSE b

\* lines 37-43 (and 207-213)
normalizePayload_(payload) ==
    [apps       |-> Coalesce(Get(Get(payload, "data"), "applications"), Arr(<<>>)),
     networking |-> Coalesce(Get(Get(payload, "data"), "networking"), Arr(<<>>)),
     interviews |-> Coalesce(Get(Get(payload, "data"), "interviews"), Arr(<<>>)),
     meta       |-> Coalesce(Get(payload, "meta"), EmptyObj)]

\* lines 45-47: String(v ?? "").slice(0, max)
safeString_(v, max) == Str(Slice(StringOf(Coalesce(v, Str(""))), max))

\* a lookup that knows the display label only
TwoKeysLabelOnly(a, label, alias) == Coalesce(Get(a, label), Str(""))

\* a[label] ?? a[alias] ?? ""
TwoKeys(a, label, alias) ==
    Coalesce(Coalesce(Get(a, label), Get(a, alias)), Str(""))

\* n[label] ?? ""
OneKey(n, label) == Coalesce(Get(n, label), Str(""))

\* lines 82-95 (and 226-239): the projection of one application
SlimApplication(a) ==
    Obj([company         |-> TwoKeys(a, "Company Name", "company"),
         role            |-> TwoKeys(a, "Role Title", "role"),
         status          |-> TwoKeys(a, "Status", "status"),
         priority        |-> TwoKeys(a, "Priority", "priority"),
         date_submitted  |-> TwoKeys(a, "Date Submitted", "date_submitted"),
         deadline        |-> TwoKeys(a, "Deadline", "deadline"),
         last_follow_up  |-> TwoKeys(a, "Last Follow-Up Date", "last_follow_up"),
         next_action     |-> TwoKeys(a, "Next Action Date", "next_action"),
         recruiter       |-> TwoKeys(a, "Recruiter Name", "recruiter"),
         recruiter_email |-> TwoKeys(a, "Recruiter Email", "recruiter_email"),
         notes           |-> safeString_(Coalesce(Get(a, "Notes"), Get(a, "notes")),
                                         NotesCap),
         interest        |-> TwoKeys(a, "Interest Level (1-5)", "interest")])

\* lines 97-105 (and 241-249): the projection of one networking contact
SlimNetworkingContact(n) ==
    Obj([company        |-> OneKey(n, "Company"),
         contact        |-> OneKey(n, "Contact Name"),
         email          |-> OneKey(n, "Email"),
         where_met      |-> OneKey(n, "Where Met"),
         last_contact   |-> OneKey(n, "Last Contact Date"),
         next_follow_up |-> OneKey(n, "Next Follow-up Date"),
         notes          |-> safeString_(Get(n, "Notes"), NotesCap)])

\* lines 107-117 (and 251-261): the projection of one interview
SlimInterview(i) ==
    Obj([company        |-> OneKey(i, "Company"),
         role           |-> OneKey(i, "Role"),
         stage          |-> OneKey(i, "Stage"),
         date           |-> OneKey(i, "Date"),
         format         |-> OneKey(i, "Format"),
         topics         |-> safeString_(Get(i, "Topics"), TopicsCap),
         rating         |-> OneKey(i, "Self Rating (1-5)"),
         follow_up_sent |-> OneKey(i, "Follow-up Sent?"),
         notes          |-> safeString_(Get(i, "Notes"), InterviewNotesCap)])

\* the outcome of records.slice(0, cap).map(project): the slim array, or the
\* TypeError of a collection that is no array or of a null record
SlimOk(val) == [ok |-> TRUE, message |-> "", val |-> val]
SlimThrown(message) == [ok |-> FALSE, message |-> message, val |-> Undefined]

NotAnArray == "slice(...).map is not a function"
NullRecord == "Cannot read properties of null"

\* a slice that keeps the last cap records
SliceRecordsLast(records, cap) ==
    SubSeq(records, Len(records) - Min(Len(records), cap) + 1, Len(records))

\* records.slice(0, cap): the first cap records, in their order
SliceRecords(records, cap) == SubSeq(records, 1, Min(Len(records), cap))

\* line 82 (and 226)
slimApps(apps) ==
    IF apps.k # "array" THEN SlimThrown(NotAnArray)
    ELSE LET kept == SliceRecords(apps.v, AppsCap) IN
         IF \E j \in 1..Len(kept) : kept[j].k \in {"null", "undefined"}
         THEN SlimThrown(NullRecord)
         ELSE SlimOk(Arr([j \in 1..Len(kept) |-> SlimApplication(kept[j])]))

\* line 97 (and 241)
slimNetworking(networking) ==
    IF networking.k # "array" THEN SlimThrown(NotAnArray)
    ELSE LET kept == SliceRecords(networking.v, NetworkingCap) IN
         IF \E j \in 1..Len(kept) : kept[j].k \in {"null", "undefined"}
         THEN SlimThrown(NullRecord)
         ELSE SlimOk(Arr([j \in 1..Len(kept) |-> SlimNetworkingContact(kept[j])]))

\* line 107 (and 251)
slimInterviews(interviews) ==
    IF interviews.k # "array" THEN SlimThrown(NotAnArray)
    ELSE LET kept == SliceRecords(interviews.v, InterviewsCap) IN
         IF \E j \in 1..Len(kept) : kept[j].k \in {"null", "undefined"}
         THEN SlimThrown(NullRecord)
         ELSE SlimOk(Arr([j \in 1..Len(kept) |-> SlimInterview(kept[j])]))

\* lines 82-117 in their order: the first exception ends the normalization
Slim(n) ==
    LET a == slimApps(n.apps)
        w == slimNetworking(n.networking)
        v == slimInterviews(n.interviews)
    IN  IF ~a.ok THEN a
        ELSE IF ~w.ok THEN w
        ELSE IF ~v.ok THEN v
        ELSE SlimOk([applications |-> a.val, networking |-> w.val,
                     interviews |-> v.val])

-----------------------------------------------------------------------------
(* The prompt builder and the generation request *)

\* lines 119-135
system(ghostedDays) ==
    "You are an internship application AI coach.\n" \o
    "Given applications, networking, and interviews, produce:\n" \o
    "- urgent actions (next 72 hours)\n" \o
    "- next 7 days plan\n" \o
    "- follow-ups with message drafts\n" \o
    "- recruiter questions\n" \o
    "- strategy insights\n" \o
    "- interview prep plan\n" \o
    "- risk flags\n" \o
    "\n" \o
    "Rules:\n" \o
    "- Be specific and time-oriented.\n" \o
    "- Prioritize High priority + Submitted + No follow-up.\n" \o
    "- Treat apps as ghosted if submitted > " \o StringOf(ghostedDays) \o
    " days ago and no follow-up.\n" \o
    "Return ONLY JSON matching the schema."

\* lines 306-316
system2(ghostedDays) ==
    "You are an internship application AI coach.\n" \o
    "Given the user's applications, networking, and interview history,\n" \o
    "generate an actionable plan with follow-ups, outreach drafts, and insights.\n" \o
    "\n" \o
    "Rules:\n" \o
    "- Be concrete and time-oriented (use \"today\", \"in 2 days\", \"this Friday\" style).\n" \o
    "- Prefer high priority + submitted + no follow-up applications first.\n" \o
    "- Identify ghosted items: submitted > " \o StringOf(ghostedDays) \o
    " days ago with no follow-up.\n" \o
    "- Output must match the JSON schema exactly."

\* lines 137-142 (and 318-323)
user(meta, ghostedDays, slim) ==
    Obj([meta         |-> Obj(("ghosted_days_threshold" :> ghostedDays)
                              @@ Spread(meta)),
         applications |-> slim.applications,
         networking   |-> slim.networking,
         interviews   |-> slim.interviews])

StringType == Obj([type |-> Str("string")])
StringArray == Obj([type |-> Str("array"), items |-> StringType])

\* lines 265-304: the output schema of the second definition
schema ==
    Obj([name |-> Str("internship_ai_recommendations"),
         schema |-> Obj([
            type |-> Str("object"),
            additionalProperties |-> Bool(FALSE),
            properties |-> Obj([
                summary |-> StringType,
                urgent_actions |-> StringArray,
                next_7_days_plan |-> StringArray,
                follow_ups |-> Obj([
                    type |-> Str("array"),
                    items |-> Obj([
                        type |-> Str("object"),
                        additionalProperties |-> Bool(FALSE),
                        properties |-> Obj([company |-> StringType,
                                            suggested_date |-> StringType,
                                            reason |-> StringType,
                                            message_draft |-> StringType]),
                        required |-> Arr(<<Str("company"), Str("suggested_date"),
                                           Str("reason"), Str("message_draft")>>)])]),
                recruiter_questions |-> StringArray,
                strategy_insights |-> StringArray,
                interview_prep |-> StringArray,
                risk_flags |-> StringArray]),
            required |-> Arr(<<Str("summary"), Str("urgent_actions"),
                               Str("next_7_days_plan"), Str("follow_ups"),
                               Str("recruiter_questions"), Str("strategy_insights"),
                               Str("interview_prep"), Str("risk_flags")>>)])])

Model == "gpt-4o-mini"

\* lines 144-158: the argument of client.responses.create
GenerationRequest(sys, usr, schemaName, innerSchema) ==
    [model |-> Model,
     input |-> <<[role |-> "system", content |-> sys],
                 [role |-> "user", content |-> Stringify(usr)]>>,
     text  |-> Obj([format |-> Obj([type   |-> Str("json_schema"),
                                    name   |-> schemaName,
                                    schema |-> innerSchema,
                                    strict |-> Bool(TRUE)])])]

\* lines 325-337
GenerationRequest2(sys, usr) ==
    [model |-> Model,
     input |-> <<[role |-> "system", content |-> sys],
                 [role |-> "user", content |-> Stringify(usr)]>>,
     text  |-> Obj([format |-> Obj([type        |-> Str("json_schema"),
                                    json_schema |-> schema])])]

-----------------------------------------------------------------------------
(* The request state machine *)

VARIABLES
    env,        \* process-wide configuration, read-only after start
    req,        \* the request being served
    pc,         \* where the handler of req stands
    log,        \* the stages the handler of req has run, in order
    calls,      \* the generation requests issued for req
    answer,     \* what the generation service answered for req
    responses,  \* the responses returned for req
    gate,       \* the access gate applied to one secret and one key
    norm        \* the field normalizer applied to one record array

vars == <<env, req, pc, log, calls, answer, responses, gate, norm>>

\* the identifier schema of line 74 is bound outside the file
Unbound == [k |-> "unbound", v |-> ""]

Credentials == {Undefined, Str(""), Str("sk-test")}
Secrets == {Undefined, Str(""), Str("A,B"), Str(" A , B,")}
GlobalSchemas == {Unbound, Undefined, schema}

LicenseKeys == {Undefined, Str(""), Str("B"), Str("C"), Str(" B "), Str("B\f")}

\* scenario A of the specification
BodyA ==
    "{\"data\":{\"applications\":[{\"Company Name\":\"Acme\",\"Status\"" \o
    ":\"Submitted\",\"Priority\":\"High\"}]}}"
BodyB ==
    "{\"meta\":{\"ghosted_days_threshold\":7},\"data\":{\"networking" \o
    "\":[{\"Company\":\"Acme\",\"Notes\":\"met at fair\"}],\"interviews" \o
    "\":[{\"Company\":\"Acme\",\"Role\":\"SWE\",\"Self Rating (1-5)\":4}" \o
    "]}}"
BodyC ==
    "{\"meta\":{\"ghosted_days_threshold\":\"21\"},\"data\":{\"applica" \o
    "tions\":[{\"company\":\"Beta\",\"notes\":12},{\"Company Name\":\"A" \o
    "cme\",\"company\":\"x\"}]}}"
Bodies ==
    {BodyA, BodyB, BodyC, "{}", "null", "", "oops", "{\"data\":",
     "{\"data\":{\"applications\":[null]}}",
     "{\"data\":{\"interviews\":\"soon\"}}"}

Requests ==
    [method : {"OPTIONS", "POST"}, def : {1, 2}, key : LicenseKeys, body : Bodies]

ResultText ==
    "{\"summary\":\"ok\",\"urgent_actions\":[\"email Acme\"],\"next_7_" \o
    "days_plan\":[],\"follow_ups\":[{\"company\":\"Acme\",\"suggested" \o
    "_date\":\"today\",\"reason\":\"ghosted\",\"message_draft\":\"Hi\"}]" \o
    ",\"recruiter_questions\":[],\"strategy_insights\":[],\"interv" \o
    "iew_prep\":[],\"risk_flags\":[]}"
\* what response.output_text may hold
OutputTexts ==
    {ResultText, " [1, 2] ", "null", "{\"summary\": \"a \\\"b\\\"\"}",
     "", "oops", "{\"summary\":", "Sorry, \"no\"."}
\* the messages of the errors client.responses.create may raise
InvocationErrors == {"401 Incorrect API key provided", "Connection error."}

NoAnswer == [kind |-> "none", v |-> ""]
NoRequest == [method |-> "", def |-> 0, key |-> Undefined, body |-> ""]
GateIdle == [secret |-> Undefined, key |-> Undefined, def |-> 0, pass |-> FALSE,
             message |-> ""]
NormIdle == [kind |-> "", input |-> Arr(<<>>), first |-> SlimOk(Undefined),
             second |-> SlimOk(Undefined), runs |-> 0]

Init ==
    /\ env \in [OPENAI_API_KEY : Credentials, LICENSE_SECRET : Secrets,
                schema : GlobalSchemas]
    /\ req = NoRequest
    /\ pc = "idle"
    /\ log = <<>>
    /\ calls = <<>>
    /\ answer = NoAnswer
    /\ responses = <<>>
    /\ gate = GateIdle
    /\ norm = NormIdle

\* the message of the SyntaxError of JSON.parse and request.json() (the
\* engine's text, shortened)
SyntaxErrorMessage(s) ==
    IF s = "" THEN "Unexpected end of JSON input" ELSE "Unexpected token in JSON"

\* lines 170-173: the catch of the first definition
Caught(message) == json(ErrorBody(message), 500)
\* lines 343-345: the catch of the second definition
Caught2(message) == json2(ErrorBody(message), 500)

\* the handler returns response r, having run the stages ran
Respond(r, ran) ==
    /\ responses' = Append(responses, r)
    /\ log' = log \o ran
    /\ pc' = "done"

\* a request arrives and the platform calls the handler of its method
Receive ==
    /\ pc \in {"idle", "done"}
    /\ req' \in Requests
    /\ pc' = "dispatch"
    /\ log' = <<>>
    /\ calls' = <<>>
    /\ answer' = NoAnswer
    /\ responses' = <<>>
    /\ UNCHANGED <<env, gate, norm>>

\* a preflight handler that checks the credential first
OPTIONS_Checked ==
    /\ pc = "dispatch"
    /\ req.method = "OPTIONS"
    /\ LET e == validateEnv_(env) IN
       IF ~e.ok THEN Respond(Caught(e.message), <<"env">>)
       ELSE Respond(json(Obj([ok |-> Bool(TRUE)]), 200), <<"env">>)
    /\ UNCHANGED <<env, req, calls, answer, gate, norm>>

\* lines 17-19
OPTIONS ==
    /\ pc = "dispatch"
    /\ req.method = "OPTIONS"
    /\ Respond(json(Obj([ok |-> Bool(TRUE)]), 200), <<>>)
    /\ UNCHANGED <<env, req, calls, answer, gate, norm>>

\* lines 49-56: the first definition up to its await of request.json()
POST_Enter ==
    /\ pc = "dispatch"
    /\ req.method = "POST"
    /\ req.def = 1
    /\ LET e == validateEnv_(env)
           l == validateLicense_(env.LICENSE_SECRET, req.key)
       IN  IF ~e.ok THEN Respond(Caught(e.message), <<"env">>)
           ELSE IF ~l.ok THEN Respond(Caught(l.message), <<"env", "gate">>)
           ELSE /\ pc' = "body"
                /\ log' = log \o <<"env", "gate">>
                /\ UNCHANGED responses
    /\ UNCHANGED <<env, req, calls, answer, gate, norm>>

\* lines 56-158: from the parsed body to the await of the generation call
POST_Body ==
    /\ pc = "body"
    /\ req.def = 1
    /\ LET parsed == JSONParse(req.body) IN
       IF ~parsed.ok
       THEN /\ Respond(json(ErrorBody("Request body must be valid JSON."), 400),
                       <<"parse">>)
            /\ UNCHANGED calls
       ELSE LET n == normalizePayload_(parsed.val)
                ghostedDays ==
                    NumberOf(Coalesce(Get(n.meta, "ghosted_days_threshold"),
                                      Num(GhostedDaysDefault)))
                schemaName == Get(env.schema, "name")
                innerSchema == Get(env.schema, "schema")
                slim == Slim(n)
            IN  IF env.schema = Unbound
                THEN /\ Respond(Caught("schema is not defined"), <<"parse">>)
                     /\ UNCHANGED calls
                ELSE IF Falsy(schemaName) \/ Falsy(innerSchema)
                THEN /\ Respond(json(ErrorBody(
                            "Schema is missing. Ensure you have const schema = { name, schema }."),
                            500), <<"parse">>)
                     /\ UNCHANGED calls
                ELSE IF ~slim.ok
                THEN /\ Respond(Caught(slim.message), <<"parse", "normalize">>)
                     /\ UNCHANGED calls
                ELSE /\ calls' = Append(calls,
                            GenerationRequest(system(ghostedDays),
                                              user(n.meta, ghostedDays, slim.val),
                                              schemaName, innerSchema))
                     /\ log' = log \o <<"parse", "normalize", "generate">>
                     /\ pc' = "generation"
                     /\ UNCHANGED responses
    /\ UNCHANGED <<env, req, answer, gate, norm>>

\* lines 160-169: the generation call returned
POST_Returned ==
    /\ pc = "generation"
    /\ req.def = 1
    /\ \E out \in OutputTexts :
          /\ answer' = [kind |-> "text", v |-> out]
          /\ LET parsed == JSONParse(out) IN
             IF ~parsed.ok
             THEN Respond(json(Obj([error |-> Str("Model returned non-JSON output."),
                                    raw |-> Str(out)]), 500), <<"validate">>)
             ELSE Respond(json(parsed.val, 200), <<"validate">>)
    /\ UNCHANGED <<env, req, calls, gate, norm>>

\* lines 144-158, 170-173: the generation call raised
POST_Raised ==
    /\ pc = "generation"
    /\ req.def = 1
    /\ \E message \in InvocationErrors :
          /\ answer' = [kind |-> "error", v |-> message]
          /\ Respond(Caught(message), <<>>)
    /\ UNCHANGED <<env, req, calls, gate, norm>>

\* lines 215-222: the second definition up to its await of request.json()
POST2_Enter ==
    /\ pc = "dispatch"
    /\ req.method = "POST"
    /\ req.def = 2
    /\ LET e == requireEnv(env)
           lic == validateLicense(env.LICENSE_SECRET, req.key)
       IN  IF ~e.ok THEN Respond(Caught2(e.message), <<"env">>)
           ELSE IF ~lic.ok
           THEN Respond(json2(ErrorBody(lic.reason), 401), <<"env", "gate">>)
           ELSE /\ pc' = "body"
                /\ log' = log \o <<"env", "gate">>
                /\ UNCHANGED responses
    /\ UNCHANGED <<env, req, calls, answer, gate, norm>>

\* lines 222-337: from the parsed body to the await of the generation call
POST2_Body ==
    /\ pc = "body"
    /\ req.def = 2
    /\ LET parsed == JSONParse(req.body) IN
       IF ~parsed.ok
       THEN /\ Respond(Caught2(SyntaxErrorMessage(req.body)), <<"parse">>)
            /\ UNCHANGED calls
       ELSE LET n == normalizePayload_(parsed.val)
                slim == Slim(n)
                ghostedDays == Coalesce(Get(n.meta, "ghosted_days_threshold"),
                                        Num(GhostedDaysDefault))
            IN  IF ~slim.ok
                THEN /\ Respond(Caught2(slim.message), <<"parse", "normalize">>)
                     /\ UNCHANGED calls
                ELSE /\ calls' = Append(calls,
                            GenerationRequest2(system2(ghostedDays),
                                               user(n.meta, ghostedDays, slim.val)))
                     /\ log' = log \o <<"parse", "normalize", "generate">>
                     /\ pc' = "generation"
                     /\ UNCHANGED responses
    /\ UNCHANGED <<env, req, answer, gate, norm>>

\* lines 339-345: the generation call returned
POST2_Returned ==
    /\ pc = "generation"
    /\ req.def = 2
    /\ \E out \in OutputTexts :
          /\ answer' = [kind |-> "text", v |-> out]
          /\ LET parsed == JSONParse(out) IN
             IF ~parsed.ok
             THEN Respond(Caught2(SyntaxErrorMessage(out)), <<"validate">>)
             ELSE Respond(json2(parsed.val, 200), <<"validate">>)
    /\ UNCHANGED <<env, req, calls, gate, norm>>

\* lines 325-337, 343-345: the generation call raised
POST2_Raised ==
    /\ pc = "generation"
    /\ req.def = 2
    /\ \E message \in InvocationErrors :
          /\ answer' = [kind |-> "error", v |-> message]
          /\ Respond(Caught2(message), <<>>)
    /\ UNCHANGED <<env, req, calls, gate, norm>>

Next ==
    \/ Receive
    \/ OPTIONS
    \/ POST_Enter
    \/ POST_Body
    \/ POST_Returned
    \/ POST_Raised
    \/ POST2_Enter
    \/ POST2_Body
    \/ POST2_Returned
    \/ POST2_Raised

Spec == Init /\ [][Next]_vars

-----------------------------------------------------------------------------
(* The access gate alone, on every secret and key over a small alphabet *)

MaxSecretLen == 3
MaxKeyLen == 2

\* two letters, the separator, an HTTP whitespace, a whitespace only trim knows
GateAlphabet == {"A", "B", ",", " ", "\f"}

RECURSIVE StringsUpTo(_)
StringsUpTo(n) ==
    IF n = 0 THEN {""}
    ELSE LET shorter == StringsUpTo(n - 1) IN
         shorter \cup {s \o c : s \in shorter, c \in GateAlphabet}

GateSecrets == {Undefined} \cup {Str(s) : s \in StringsUpTo(MaxSecretLen)}
GateKeys == {Undefined} \cup {Str(s) : s \in StringsUpTo(MaxKeyLen)}

InitGate ==
    /\ env = [OPENAI_API_KEY |-> Str("sk-test"), LICENSE_SECRET |-> Undefined,
              schema |-> Unbound]
    /\ req = NoRequest
    /\ pc = "idle"
    /\ log = <<>>
    /\ calls = <<>>
    /\ answer = NoAnswer
    /\ responses = <<>>
    /\ gate \in {[GateIdle EXCEPT !.secret = s, !.key = q] :
                    s \in GateSecrets, q \in GateKeys}
    /\ norm = NormIdle

\* validateLicense_ of the first definition decides
Gate1 ==
    /\ gate.def = 0
    /\ LET l == validateLicense_(gate.secret, gate.key) IN
       gate' = [gate EXCEPT !.def = 1, !.pass = l.ok, !.message = l.message]
    /\ UNCHANGED <<env, req, pc, log, calls, answer, responses, norm>>

\* validateLicense of the second definition decides
Gate2 ==
    /\ gate.def = 0
    /\ LET lic == validateLicense(gate.secret, gate.key) IN
       gate' = [gate EXCEPT !.def = 2, !.pass = lic.ok, !.message = lic.reason]
    /\ UNCHANGED <<env, req, pc, log, calls, answer, responses, norm>>

NextGate == Gate1 \/ Gate2

SpecGate == InitGate /\ [][NextGate]_vars

-----------------------------------------------------------------------------
(* The field normalizer alone, on record arrays around the caps *)

\* how many records beyond its cap an input array may hold
MaxExtra == 2

Kinds == {"applications", "networking", "interviews"}

CapOf(kind) ==
    CASE kind = "applications" -> AppsCap
      [] kind = "networking"   -> NetworkingCap
      [] kind = "interviews"   -> InterviewsCap

RECURSIVE Repeat(_, _)
Repeat(s, n) ==
    IF n = 0 THEN ""
    ELSE LET half == Repeat(s, n \div 2) IN
         half \o half \o (IF n % 2 = 1 THEN s ELSE "")

\* a text longer than every text cap
LongText == Repeat("x", NotesCap + 1)

Shapes == {"labels", "aliases", "mixed", "long", "empty", "numbers",
           "nullFirst", "nullLast"}

\* the j-th of len records of a shape; the record tells its position
RecordAt(shape, j, len) ==
    LET name == Str("Co" \o NumToStr(j)) IN
    CASE shape = "labels" ->
            Obj(("Company Name" :> name) @@ ("Company" :> name)
                @@ ("Status" :> Str("Submitted")) @@ ("Role" :> Str("SWE"))
                @@ ("Notes" :> Str("call back")) @@ ("Topics" :> Str("graphs"))
                @@ ("Interest Level (1-5)" :> Num(j)) @@ ("Self Rating (1-5)" :> Num(j)))
      [] shape = "aliases" ->
            Obj([company |-> name, role |-> Str("SWE"), status |-> Null,
                 contact |-> Str("Ann"), notes |-> Str("call back"),
                 topics |-> Str("graphs"), rating |-> Num(j), interest |-> Num(j)])
      [] shape = "mixed" ->
            Obj(("Company Name" :> Null) @@ ("Company" :> Bool(FALSE))
                @@ ("Notes" :> Num(j)) @@ ("Topics" :> Arr(<<Str("a"), Null, Num(j)>>))
                @@ [company |-> name, notes |-> Str("alias note"),
                    priority |-> Num(0), date |-> Str("2024-01-01")])
      [] shape = "long" ->
            Obj(("Notes" :> Str(LongText)) @@ ("Topics" :> Str(LongText))
                @@ ("Company" :> name) @@ [company |-> name])
      [] shape = "empty" -> EmptyObj
      [] shape = "numbers" -> Num(j)
      [] shape = "nullFirst" -> IF j = 1 THEN Null ELSE Obj([company |-> name])
      [] shape = "nullLast" ->
            IF j = len THEN Null
            ELSE Obj(("Company" :> name) @@ [company |-> name])

RecordArray(shape, len) == Arr([j \in 1..len |-> RecordAt(shape, j, len)])

Lengths(kind) == {0, 1, 2} \cup ((CapOf(kind) - 1)..(CapOf(kind) + MaxExtra))

InitNorm ==
    /\ env = [OPENAI_API_KEY |-> Str("sk-test"), LICENSE_SECRET |-> Undefined,
              schema |-> Unbound]
    /\ req = NoRequest
    /\ pc = "idle"
    /\ log = <<>>
    /\ calls = <<>>
    /\ answer = NoAnswer
    /\ responses = <<>>
    /\ gate = GateIdle
    /\ \E kind \in Kinds, shape \in Shapes :
          \E len \in Lengths(kind) :
             norm = [NormIdle EXCEPT !.kind = kind,
                                     !.input = RecordArray(shape, len)]

\* the slim array of a record array of a kind
SlimOf(kind, records) ==
    CASE kind = "applications" -> slimApps(records)
      [] kind = "networking"   -> slimNetworking(records)
      [] kind = "interviews"   -> slimInterviews(records)

\* the input array goes through the normalizer
Normalize ==
    /\ norm.runs = 0
    /\ norm' = [norm EXCEPT !.first = SlimOf(norm.kind, norm.input), !.runs = 1]
    /\ UNCHANGED <<env, req, pc, log, calls, answer, responses, gate>>

\* the slim array goes through the normalizer again
Renormalize ==
    /\ norm.runs = 1
    /\ norm.first.ok
    /\ norm' = [norm EXCEPT !.second = SlimOf(norm.kind, norm.first.val),
                            !.runs = 2]
    /\ UNCHANGED <<env, req, pc, log, calls, answer, responses, gate>>

NextNorm == Normalize \/ Renormalize

SpecNorm == InitNorm /\ [][NextNorm]_vars

-----------------------------------------------------------------------------
(* What the properties speak of, stated without the handlers' helpers *)

\* the comma-delimited segments of s, the empty ones included
Segments(s) ==
    {SubSeq(s, i, j) : <<i, j>> \in
        {<<a, b>> \in (1..Len(s) + 1) \X (0..Len(s)) :
            /\ a <= b + 1
            /\ \A c \in a..b : Ch(s, c) # ","
            /\ a = 1 \/ Ch(s, a - 1) = ","
            /\ b = Len(s) \/ Ch(s, b + 1) = ","}}

\* s without its leading and trailing characters of ws
Core(s, ws) ==
    LET cut == CHOOSE <<a, b>> \in (1..Len(s) + 1) \X (0..Len(s)) :
                  /\ a <= b + 1
                  /\ \A c \in (1..(a - 1)) \cup ((b + 1)..Len(s)) : Ch(s, c) \in ws
                  /\ a <= b => Ch(s, a) \notin ws /\ Ch(s, b) \notin ws
    IN  SubSeq(s, cut[1], cut[2])

\* the gate lets key through under secret: no secret, or the header value
\* as received is a non-empty trimmed token of the secret
GateOpen(secret, key) ==
    \/ secret.k = "undefined"
    \/ secret.v = ""
    \/ /\ key.k = "string"
       /\ Core(key.v, HTTPWhitespace) # ""
       /\ \E t \in Segments(secret.v) :
             Core(t, JSWhitespace) = Core(key.v, HTTPWhitespace)

CredentialPresent == env.OPENAI_API_KEY.k = "string" /\ env.OPENAI_API_KEY.v # ""
SecretConfigured == env.LICENSE_SECRET.k = "string" /\ env.LICENSE_SECRET.v # ""
BodyIsJSON == JSONParse(req.body).ok

Served == pc = "done" /\ Len(responses) = 1
Status == responses[1].status
Body == JSONParse(responses[1].body)
ErrorText == Get(Body.val, "error")

CORSHeaders ==
    [content_type                 |-> "application/json",
     access_control_allow_origin  |-> "*",
     access_control_allow_methods |-> "POST, OPTIONS",
     access_control_allow_headers |-> "content-type, x-license-key"]

\* position of the first occurrence of stage in the log, 0 if none
First(stage) ==
    IF \E i \in 1..Len(log) : log[i] = stage
    THEN CHOOSE i \in 1..Len(log) : log[i] = stage /\ \A j \in 1..(i - 1) : log[j] # stage
    ELSE 0

-----------------------------------------------------------------------------
(* Properties *)

MissingKeyMessages == {Str("Missing license key (x-license-key)."),
                       Str("Missing license key.")}
InvalidKeyMessage == Str("Invalid license key.")

\* C1: a POST served with a secret configured and the credential present
\* answers 401 with a "missing" message when the x-license-key header is
\* absent and 401 with an "invalid" message when the supplied key is not on
\* the allowlist; the two messages differ.
C1_GateFailureIs401 ==
    (pc = "done" /\ req.method = "POST" /\ CredentialPresent /\ SecretConfigured)
    => /\ req.key.k = "undefined"
          => Served /\ Status = 401 /\ ErrorText \in MissingKeyMessages
       /\ (/\ req.key.k = "string"
           /\ Core(req.key.v, HTTPWhitespace) # ""
           /\ ~GateOpen(env.LICENSE_SECRET, req.key))
          => Served /\ Status = 401 /\ ErrorText = InvalidKeyMessage
       /\ InvalidKeyMessage \notin MissingKeyMessages

\* C2: within one request the generation service is called at most once,
\* and only after the credential check, the gate and the parse of the body
\* have succeeded, in that order; a request that fails the gate or whose
\* body is malformed runs neither the normalizer nor the generation call.
C2_GenerationGuarded ==
    /\ Len(calls) <= 1
    /\ Cardinality({i \in 1..Len(log) : log[i] = "generate"}) = Len(calls)
    /\ Len(calls) = 1 =>
          /\ req.method = "POST"
          /\ CredentialPresent
          /\ GateOpen(env.LICENSE_SECRET, req.key)
          /\ BodyIsJSON
          /\ 0 < First("env") /\ First("env") < First("gate")
          /\ First("gate") < First("parse") /\ First("parse") < First("generate")
    /\ (req.method = "POST" /\ (~GateOpen(env.LICENSE_SECRET, req.key) \/ ~BodyIsJSON))
          => First("normalize") = 0 /\ calls = <<>>

\* a request whose generation call was issued and answered
C2_Witness ==
    pc = "done" /\ Len(calls) = 1 /\ answer.kind = "error" /\ SecretConfigured

\* C3: when the generation call returns text that parses as JSON, the
\* response has status 200 and its body is the parsed output, unchanged.
C3_PassThrough ==
    (pc = "done" /\ answer.kind = "text" /\ JSONParse(answer.v).ok)
    => /\ Served
       /\ Status = 200
       /\ Body = JSONParse(answer.v)

C3_Witness ==
    /\ Served
    /\ answer = [kind |-> "text", v |-> ResultText]
    /\ Status = 200
    /\ Get(Body.val, "summary") = Str("ok")

\* C4: a POST that passes the credential check and the gate with a body
\* that is not valid JSON answers 400 with
\* {error: "Request body must be valid JSON."}.
C4_MalformedBodyIs400 ==
    (/\ pc = "done" /\ req.method = "POST" /\ CredentialPresent
     /\ GateOpen(env.LICENSE_SECRET, req.key) /\ ~BodyIsJSON)
    => /\ Served
       /\ Status = 400
       /\ Body = [ok |-> TRUE,
                  val |-> Obj([error |-> Str("Request body must be valid JSON.")])]

\* C5: when the generation call returns text that is not parsable JSON, the
\* response has status 500 and an error envelope whose raw field is the
\* returned text, verbatim.
C5_RawTextReturned ==
    (pc = "done" /\ answer.kind = "text" /\ ~JSONParse(answer.v).ok)
    => /\ Served
       /\ Status = 500
       /\ Body.ok
       /\ ErrorText.k = "string"
       /\ Get(Body.val, "raw") = Str(answer.v)

\* C6: every POST ends with exactly one response, whose body is JSON, whose
\* headers are the fixed content type and CORS headers and whose status is
\* one of 200, 400, 401, 500; before the handler ends no response exists.
C6_OneWellFormedResponse ==
    /\ pc # "done" => responses = <<>>
    /\ (pc = "done" /\ req.method = "POST")
       => /\ Len(responses) = 1
          /\ Body.ok
          /\ responses[1].headers = CORSHeaders
          /\ Status \in {200, 400, 401, 500}

\* C7 as stated: with a secret configured the gate passes exactly when the
\* supplied key, trimmed of surrounding whitespace, is one of the trimmed
\* tokens of the secret; with none it passes always.
C7_TrimmedKeyMatches ==
    gate.def # 0 =>
       (gate.pass <=>
           \/ gate.secret.k = "undefined"
           \/ gate.secret.v = ""
           \/ /\ gate.key.k = "string"
              /\ Core(gate.key.v, JSWhitespace) # ""
              /\ \E t \in Segments(gate.secret.v) :
                    Core(t, JSWhitespace) = Core(gate.key.v, JSWhitespace))

\* C7 as the code has it: with no secret configured the gate passes always;
\* with one it passes exactly when the key as the header accessor returns
\* it (only leading and trailing HTTP whitespace removed, no trim) is
\* non-empty and equals one of the whitespace-trimmed tokens of the secret.
C7_ReceivedKeyMatches ==
    gate.def # 0 => (gate.pass <=> GateOpen(gate.secret, gate.key))

\* the gate decided on a key sent with surrounding blanks, and let it pass
C7_Witness ==
    /\ gate.def # 0
    /\ gate.pass
    /\ gate.secret = Str(" A,")
    /\ gate.key = Str("A ")

C9_Idempotent ==
    norm.runs = 2 => norm.second.ok /\ norm.second.val = norm.first.val

AllFieldsEmpty(record) == \A field \in DOMAIN record.v : record.v[field] = Str("")

\* C9 as the code has it: a slim application array fed through the
\* normalizer again comes out equal to itself; a slim networking or
\* interview array comes out with the same length and every field of every
\* record the empty string.
C9_Renormalized ==
    norm.runs = 2 =>
       /\ norm.second.ok
       /\ Len(norm.second.val.v) = Len(norm.first.val.v)
       /\ norm.kind = "applications" => norm.second.val = norm.first.val
       /\ norm.kind # "applications" =>
             \A j \in 1..Len(norm.second.val.v) : AllFieldsEmpty(norm.second.val.v[j])

\* a slim application array with filled fields went through again
C9_Witness ==
    /\ norm.runs = 2
    /\ norm.kind = "applications"
    /\ Len(norm.first.val.v) = AppsCap
    /\ \E j \in 1..Len(norm.first.val.v) : ~AllFieldsEmpty(norm.first.val.v[j])
    /\ norm.second.val = norm.first.val

ProjectionOf(kind, record) ==
    CASE kind = "applications" -> SlimApplication(record)
      [] kind = "networking"   -> SlimNetworkingContact(record)
      [] kind = "interviews"   -> SlimInterview(record)

\* C10: an array of L records (none of the first cap null) yields min(L, cap)
\* slim records, cap = 300, 300, 200 for applications, networking, interviews;
\* the i-th is the projection of the i-th input record; the records beyond
\* the cap are dropped without an error.
C10_FirstN ==
    (/\ norm.runs >= 1
     /\ \A j \in 1..Min(Len(norm.input.v), CapOf(norm.kind)) :
           norm.input.v[j].k # "null")
    => /\ norm.first.ok
       /\ Len(norm.first.val.v) = Min(Len(norm.input.v), CapOf(norm.kind))
       /\ \A j \in 1..Len(norm.first.val.v) :
             norm.first.val.v[j] = ProjectionOf(norm.kind, norm.input.v[j])
       /\ AppsCap = 300 /\ NetworkingCap = 300 /\ InterviewsCap = 200

\* an interview array longer than its cap was cut to the cap
C10_Witness ==
    /\ norm.runs >= 1
    /\ norm.kind = "interviews"
    /\ Len(norm.input.v) > InterviewsCap
    /\ norm.first.ok
    /\ Len(norm.first.val.v) = InterviewsCap
    /\ Get(norm.first.val.v[InterviewsCap], "company") = Str("Co200")

====
